---- MODULE Spec2Model ----
(***************************************************************************)
(* A model of the `escaping` crate (src/src/lib.rs): validated             *)
(* construction of an Escape (new, const_new), the encoder (escape_to,     *)
(* escape), the decoder (unescape_to, unescape) and the escape-aware       *)
(* scanner (is_escaped, is_sep, split, splitn, rsplit).                    *)
(*                                                                         *)
(* A char is its code point (a natural number); a str is the sequence of   *)
(* its chars.  Byte offsets, which the code uses for slicing and for       *)
(* is_escaped, are computed from the UTF-8 width of each char.             *)
(***************************************************************************)
EXTENDS Integers, Sequences, FiniteSets, TLC

VARIABLES
    escape_char,  \* Escape.escape_char
    escape,       \* Escape.escape : [char; C]
    tr,           \* Escape.tr : [(char, &str); TR]
    generic,      \* Escape.generic : "none" or the name of the predicate
    new_res,      \* what `new` returned: "unbuilt", "ok" or the error text
    const_res,    \* what `const_new` did: "unbuilt", "ok" or "assertion failed"
    s,            \* the text handed to the operation
    op,           \* the last operation that ran
    sep,          \* the separator handed to split / splitn / rsplit
    n,            \* the limit handed to splitn
    idx,          \* the byte offset handed to is_escaped
    out_str,      \* the text returned by escape / unescape
    out_rt,       \* unescape(escape(s)) of the round trip
    out_bool,     \* the answer of is_escaped
    out_segs      \* the segments yielded by split / splitn / rsplit

vars == <<escape_char, escape, tr, generic, new_res, const_res, s, op, sep, n,
          idx, out_str, out_rt, out_bool, out_segs>>

----------------------------------------------------------------------------
(* Characters that occur in the source and its tests.                      *)
NUL == 0
SOH == 1
NL == 10
CR == 13
PLUS == 43
COMMA == 44
DIGIT0 == 48
LBRACKET == 91
BSL == 92
LA == 97
LN == 110
LR == 114
LU == 117
LX == 120
LBRACE == 123
RBRACE == 125
NTILDE == 241
SNOWMAN == 9731

(* Bounds of the model.                                                    *)
MaxTr == 2
MaxIn == 3
MaxDec == 6
MaxLen == 5
MaxN == 3

----------------------------------------------------------------------------
(* str and char primitives of the Rust standard library, as the code uses  *)
(* them.                                                                   *)

\* char::is_ascii
IsAscii(c) == c < 128

\* char::is_control (general category Cc), the predicate of the tests
IsControl(c) == c < 32 \/ (c >= 127 /\ c <= 159)

\* `c as u8`
AsU8(c) == c % 256

\* bitwise `!` on a u8
NotU8(b) == 255 - b

\* the UTF-8 encoding of a char
Utf8(c) ==
    IF c < 128 THEN <<c>>
    ELSE IF c < 2048 THEN <<192 + (c \div 64), 128 + (c % 64)>>
    ELSE IF c < 65536
         THEN <<224 + (c \div 4096), 128 + ((c \div 64) % 64), 128 + (c % 64)>>
    ELSE <<240 + (c \div 262144), 128 + ((c \div 4096) % 64),
           128 + ((c \div 64) % 64), 128 + (c % 64)>>

\* str::as_bytes
RECURSIVE AsBytes(_)
AsBytes(t) == IF t = <<>> THEN <<>> ELSE Utf8(Head(t)) \o AsBytes(Tail(t))

\* str::len, in bytes
StrLen(t) == Len(AsBytes(t))

\* the byte offset at which the char after the first k chars of t starts
Offset(t, k) == StrLen(SubSeq(t, 1, k))

\* str::is_char_boundary
IsCharBoundary(t, i) ==
    LET b == AsBytes(t) IN
    IF i = 0 THEN TRUE
    ELSE IF i >= Len(b) THEN i = Len(b)
    ELSE b[i + 1] < 128 \/ b[i + 1] >= 192

\* slice::contains / str::contains(char)
Contains(t, c) == \E k \in 1..Len(t) : t[k] = c

\* str::starts_with(&str), a comparison of bytes
StartsWith(t, p) ==
    LET b == AsBytes(t)
        q == AsBytes(p)
    IN Len(q) <= Len(b) /\ SubSeq(b, 1, Len(q)) = q

\* str::is_ascii
StrIsAscii(t) == \A k \in 1..Len(t) : IsAscii(t[k])

\* A slice at byte offsets that are not char boundaries panics.
Panic == <<-1>>

\* &t[a..b]
StrSlice(t, a, b) ==
    IF a <= b /\ b <= StrLen(t) /\ IsCharBoundary(t, a) /\ IsCharBoundary(t, b)
    THEN LET ka == CHOOSE k \in 0..Len(t) : Offset(t, k) = a
             kb == CHOOSE k \in 0..Len(t) : Offset(t, k) = b
         IN SubSeq(t, ka + 1, kb)
    ELSE Panic

----------------------------------------------------------------------------
(* Construction.                                                           *)

\* str_byte_eq
StrByteEq(s0, s1) ==
    LET b0 == AsBytes(s0)
        b1 == AsBytes(s1)
    IN Len(b0) = Len(b1) /\ \A i \in 1..Len(b0) : b0[i] = b1[i]

\* str_contains
StrContains(t, c) == \E i \in 1..Len(AsBytes(t)) : AsBytes(t)[i] = c

\* the inner loop of `new` over j: the first duplicate found, if any
RECURSIVE NewDup(_, _, _)
NewDup(t, i, j) ==
    IF j > Len(t) THEN "ok"
    ELSE IF i # j /\ t[i][1] = t[j][1] THEN "duplicate translation key"
    ELSE IF i # j /\ t[i][2] = t[j][2] THEN "duplicate translation target"
    ELSE NewDup(t, i, j + 1)

\* the body of the loop of `new` over the translations, for entry i
NewEntry(ec, esc, t, i) ==
    LET c == t[i][1]
        e == t[i][2]
    IN IF c = ec THEN "you cannot translate the escape char"
       ELSE IF Len(AsBytes(e)) = 0 THEN "translation targets may not be empty"
       ELSE IF ~StrIsAscii(e) THEN "translation targets must be ascii"
       ELSE IF StartsWith(e, <<LU>>)
            THEN "translation targets must not start with u"
       ELSE IF Contains(e, ec)
            THEN "translation targets may not contain the escape char"
       ELSE IF ~Contains(esc, c)
            THEN "the escape array must contain every translation key"
       ELSE NewDup(t, i, 1)

\* the loop of `new` over the translations, from entry i on
RECURSIVE NewLoop(_, _, _, _)
NewLoop(ec, esc, t, i) ==
    IF i > Len(t) THEN "ok"
    ELSE IF NewEntry(ec, esc, t, i) # "ok" THEN NewEntry(ec, esc, t, i)
    ELSE NewLoop(ec, esc, t, i + 1)

\* `new` without the check that the escape array holds every key
NewNoKeyCheck(ec, esc, t) ==
    IF ~IsAscii(ec) THEN "the escape char must be ascii"
    ELSE IF ~Contains(esc, ec)
         THEN "the escape slice must contain the escape character"
    ELSE IF \E i \in 1..Len(t) :
                 NewEntry(ec, esc, t, i)
                     \notin {"ok", "the escape array must contain every translation key"}
         THEN "rejected"
    ELSE "ok"

\* Escape::new: "ok", or the text of the first error
New(ec, esc, t) ==
    IF ~IsAscii(ec) THEN "the escape char must be ascii"
    ELSE IF ~Contains(esc, ec)
         THEN "the escape slice must contain the escape character"
    ELSE NewLoop(ec, esc, t, 1)

\* the assertions of const_new on entry i of the translations
ConstNewEntry(ec, t, i) ==
    /\ t[i][1] # ec
    /\ Len(AsBytes(t[i][2])) > 0
    /\ StrIsAscii(t[i][2])
    /\ NotU8(AsBytes(t[i][2])[1]) # LU
    /\ ~StrContains(t[i][2], AsU8(ec))
    /\ \A j \in 1..Len(t) :
          i # j => /\ t[j][1] # t[i][1]
                   /\ ~StrByteEq(t[j][2], t[i][2])

\* Escape::const_new: "ok", or "assertion failed" (the build aborts)
ConstNew(ec, esc, t) ==
    LET escape_must_contain_the_escape_character ==
            \E i \in 1..Len(esc) : esc[i] = ec
        every_first_tr_char_must_be_in_escape ==
            \A i \in 1..Len(t) : \E j \in 1..Len(esc) : esc[j] = t[i][1]
    IN IF /\ IsAscii(ec)
          /\ escape_must_contain_the_escape_character
          /\ \A i \in 1..Len(t) : ConstNewEntry(ec, t, i)
          /\ every_first_tr_char_must_be_in_escape
       THEN "ok"
       ELSE "assertion failed"

----------------------------------------------------------------------------
(* The encoder.                                                            *)

\* the generic predicate, when there is one, applied to c
GenericSays(g, c) == g = "is_control" /\ IsControl(c)

\* one hexadecimal digit, lowercase, as `{:x}` writes it
HexDigit(d) == IF d < 10 THEN DIGIT0 + d ELSE LA + (d - 10)

\* format!("{:x}", v): lowercase, no prefix, no leading zeros
RECURSIVE LowerHex(_)
LowerHex(v) ==
    IF v < 16 THEN <<HexDigit(v)>>
    ELSE LowerHex(v \div 16) \o <<HexDigit(v % 16)>>

\* self.tr.iter().find_map(..): the first entry with key c, or 0 for None
RECURSIVE FindTr(_, _, _)
FindTr(t, c, i) ==
    IF i > Len(t) THEN 0
    ELSE IF t[i][1] = c THEN i
    ELSE FindTr(t, c, i + 1)

\* what escape_to pushes for one char
EscapeChar(ec, esc, t, g, c) ==
    IF Contains(esc, c)
    THEN <<ec>> \o (IF FindTr(t, c, 1) # 0 THEN t[FindTr(t, c, 1)][2] ELSE <<c>>)
    ELSE IF GenericSays(g, c)
         THEN <<ec>> \o <<LU, LBRACE, DIGIT0, LX>> \o LowerHex(c) \o <<RBRACE>>
    ELSE <<c>>

\* Escape::escape_to, onto an empty buffer
RECURSIVE EscapeTo(_, _, _, _, _)
EscapeTo(ec, esc, t, g, text) ==
    IF text = <<>> THEN <<>>
    ELSE EscapeChar(ec, esc, t, g, Head(text)) \o EscapeTo(ec, esc, t, g, Tail(text))

\* Escape::escape: the text itself when no char of it is in the escape array
Escape(ec, esc, t, g, text) ==
    LET to_escape == Cardinality({k \in 1..Len(text) : Contains(esc, text[k])})
    IN IF to_escape = 0 THEN text ELSE EscapeTo(ec, esc, t, g, text)

----------------------------------------------------------------------------
(* The decoder.                                                            *)

\* str::find('}'): the byte offset of the first '}', or -1
Find(text, c) ==
    IF Contains(text, c)
    THEN Offset(text, (CHOOSE k \in 1..Len(text) :
                          text[k] = c /\ \A j \in 1..(k - 1) : text[j] # c) - 1)
    ELSE -1

\* the largest code point, char::MAX
CharMax == 1114111

\* the value of a string of decimal digits, or -1 when a char is no digit.
\* A value above char::MAX is kept as CharMax + 1: whether it still fits a
\* u32 (parse is Ok, char::from_u32 is None) or not (parse is Err), the
\* caller gets None.
RECURSIVE DecimalValue(_, _)
DecimalValue(d, acc) ==
    IF d = <<>> THEN acc
    ELSE IF Head(d) < DIGIT0 \/ Head(d) > DIGIT0 + 9 THEN -1
    ELSE LET v == acc * 10 + (Head(d) - DIGIT0) IN
         DecimalValue(Tail(d), IF v > CharMax THEN CharMax + 1 ELSE v)

\* str::parse::<u32>: an optional '+', then decimal digits; -1 for Err
ParseU32(d) ==
    LET digits == IF d # <<>> /\ Head(d) = PLUS THEN Tail(d) ELSE d
    IN IF digits = <<>> THEN -1 ELSE DecimalValue(digits, 0)

\* char::from_u32 is Some
IsScalarValue(v) == v >= 0 /\ v <= CharMax /\ ~(v >= 55296 /\ v <= 57343)

\* parse_unicode_escape_seq: <<>> for None, <<j, c>> for Some((j, c)), Panic
ParseUnicodeEscapeSeq(text) ==
    IF ~StartsWith(text, <<LU, LBRACE>>) THEN <<>>
    ELSE LET i == Find(text, RBRACE) IN
         IF i < 0 THEN <<>>
         ELSE IF StrSlice(text, 2, i) = Panic THEN Panic
         ELSE LET v == ParseU32(StrSlice(text, 2, i)) IN
              IF v < 0 THEN <<>>
              ELSE IF ~IsScalarValue(v) THEN <<>>
              ELSE <<i + 1, v>>

\* the loop over self.tr in unescape_to: the first entry whose target the
\* rest of the text starts with, or 0
RECURSIVE MatchTr(_, _, _)
MatchTr(t, rest, m) ==
    IF m > Len(t) THEN 0
    ELSE IF StartsWith(rest, t[m][2]) THEN m
    ELSE MatchTr(t, rest, m + 1)

\* the closure of unescape_to applied to the k-th char and the ones after
\* it, with its captured state `escaped` and `skip_to`
RECURSIVE UnescapeFrom(_, _, _, _, _, _)
UnescapeFrom(ec, t, text, k, escaped, skip_to) ==
    IF k > Len(text) THEN <<>>
    ELSE
      LET i == Offset(text, k - 1)
          c == text[k]
          rest == StrSlice(text, i, StrLen(text))
      IN
      IF i < skip_to THEN UnescapeFrom(ec, t, text, k + 1, escaped, skip_to)
      ELSE IF c = ec /\ ~escaped
           THEN UnescapeFrom(ec, t, text, k + 1, TRUE, skip_to)
      ELSE IF escaped
           THEN IF rest = Panic THEN Panic
                ELSE IF MatchTr(t, rest, 1) # 0
                THEN LET m == MatchTr(t, rest, 1)
                         tl == UnescapeFrom(ec, t, text, k + 1, FALSE,
                                            i + StrLen(t[m][2]))
                     IN IF tl = Panic THEN Panic ELSE <<t[m][1]>> \o tl
                ELSE LET p == ParseUnicodeEscapeSeq(rest) IN
                     IF p = Panic THEN Panic
                     ELSE IF p # <<>>
                     THEN LET tl == UnescapeFrom(ec, t, text, k + 1, FALSE, i + p[1])
                          IN IF tl = Panic THEN Panic ELSE <<p[2]>> \o tl
                     ELSE LET tl == UnescapeFrom(ec, t, text, k + 1, FALSE, skip_to)
                          IN IF tl = Panic THEN Panic ELSE <<c>> \o tl
      ELSE LET tl == UnescapeFrom(ec, t, text, k + 1, FALSE, skip_to)
           IN IF tl = Panic THEN Panic ELSE <<c>> \o tl

\* Escape::unescape_to, onto an empty buffer
UnescapeTo(ec, t, text) == UnescapeFrom(ec, t, text, 1, FALSE, 0)

\* Escape::unescape: the text itself when it holds no escape char
Unescape(ec, t, text) ==
    IF ~Contains(text, ec) THEN text ELSE UnescapeTo(ec, t, text)

----------------------------------------------------------------------------
(* The scanner.                                                            *)

\* the loop of is_escaped: `res` once j has gone from the given offset
\* down to the first byte that is no escape char byte (j counts the bytes
\* before the offset)
RECURSIVE IsEscapedLoop(_, _, _, _)
IsEscapedLoop(ec, text, j, res) ==
    IF j = 0 THEN res
    ELSE IF IsCharBoundary(text, j - 1) /\ AsBytes(text)[j] = AsU8(ec)
         THEN IsEscapedLoop(ec, text, j - 1, ~res)
         ELSE res

\* is_escaped that sets `res` instead of flipping it
IsEscapedSet(ec, text, i) ==
    \/ ~IsCharBoundary(text, i)
    \/ (i > 0 /\ AsBytes(text)[i] = AsU8(ec))

\* Escape::is_escaped
IsEscaped(ec, text, i) ==
    ~IsCharBoundary(text, i) \/ IsEscapedLoop(ec, text, i, FALSE)

\* Escape::is_sep: what it returns and what it leaves in *esc
IsSep(ec, esc, c, sp) ==
    IF c = sp THEN [ret |-> ~esc, esc |-> esc]
    ELSE [ret |-> FALSE, esc |-> (c = ec /\ ~esc)]

\* str::split with the closure of Escape::split: the chars from k on, the
\* closure's `esc`, and the char index after the last match
RECURSIVE SplitFrom(_, _, _, _, _, _)
SplitFrom(ec, text, sp, k, esc, start) ==
    IF k > Len(text) THEN <<SubSeq(text, start, Len(text))>>
    ELSE LET r == IsSep(ec, esc, text[k], sp) IN
         IF r.ret
         THEN <<SubSeq(text, start, k - 1)>> \o SplitFrom(ec, text, sp, k + 1, r.esc, k + 1)
         ELSE SplitFrom(ec, text, sp, k + 1, r.esc, start)

\* Escape::split, collected
Split(ec, text, sp) == SplitFrom(ec, text, sp, 1, FALSE, 1)

\* str::splitn with the closure of Escape::splitn: `count` segments are
\* still allowed
RECURSIVE SplitnFrom(_, _, _, _, _, _, _)
SplitnFrom(ec, text, sp, k, esc, start, count) ==
    IF count = 0 THEN <<>>
    ELSE IF count = 1 \/ k > Len(text) THEN <<SubSeq(text, start, Len(text))>>
    ELSE LET r == IsSep(ec, esc, text[k], sp) IN
         IF r.ret
         THEN <<SubSeq(text, start, k - 1)>>
                  \o SplitnFrom(ec, text, sp, k + 1, r.esc, k + 1, count - 1)
         ELSE SplitnFrom(ec, text, sp, k + 1, r.esc, start, count)

\* Escape::splitn, collected
Splitn(ec, text, m, sp) == SplitnFrom(ec, text, sp, 1, FALSE, 1, m)

\* str::rsplit with the closure of Escape::rsplit: the searcher hands the
\* chars to the closure from the last one back; `end` is the char index
\* before the last match
RECURSIVE RsplitFrom(_, _, _, _, _, _)
RsplitFrom(ec, text, sp, k, esc, end) ==
    IF k < 1 THEN <<SubSeq(text, 1, end)>>
    ELSE LET r == IsSep(ec, esc, text[k], sp) IN
         IF r.ret
         THEN <<SubSeq(text, k + 1, end)>> \o RsplitFrom(ec, text, sp, k - 1, r.esc, k - 1)
         ELSE RsplitFrom(ec, text, sp, k - 1, r.esc, end)

\* Escape::rsplit, collected
Rsplit(ec, text, sp) == RsplitFrom(ec, text, sp, Len(text), FALSE, Len(text))

----------------------------------------------------------------------------
(* Inputs.                                                                 *)

\* the texts of at most m chars over the alphabet A
Texts(A, m) == UNION {[1..k -> A] : k \in 0..m}

\* the arrays that list the chars of a subset of A in ascending order
Arrays(A) ==
    {a \in Texts(A, Cardinality(A)) : \A k \in 1..(Len(a) - 1) : a[k] < a[k + 1]}

\* construction: escape chars, escape arrays, translation keys and targets
NewEscapeChars == {BSL, SNOWMAN}
NewKeys == {NL, CR, BSL}
NewTargets == {<<>>, <<LN>>, <<LR>>, <<LU>>, <<NTILDE>>, <<BSL>>}
NewTrs == Texts(NewKeys \X NewTargets, MaxTr)

\* encoding: the configurations `new` accepts among these, and the texts
EncodeEscapes == Arrays({BSL, LBRACKET, NL, LN, LBRACE})
EncodeTrs == {<<>>, <<<<NL, <<LN>>>>>>, <<<<NL, <<LN, LBRACKET>>>>>>}
Generics == {"none", "is_control"}
EncodeTexts == Texts({BSL, LBRACKET, NL, LN, SOH, LU}, MaxIn)

\* decoding: the configurations and the texts
DecodeEscapes == {<<NUL, BSL>>}
DecodeTrs == {<<>>, <<<<NUL, <<DIGIT0>>>>>>}
DecodeTexts == Texts({BSL, LU, LBRACE, RBRACE, PLUS, DIGIT0, LA}, MaxDec)

\* scanning: texts, separators, limits
ScanTexts == Texts({BSL, COMMA, LA, NTILDE}, MaxLen)
Seps == {COMMA, BSL}
Limits == 0..MaxN

----------------------------------------------------------------------------
(* The state machine.                                                      *)

\* no operation has run and nothing has been returned
Idle ==
    /\ op = "init"
    /\ sep = COMMA
    /\ n = 0
    /\ idx = 0
    /\ out_str = <<>>
    /\ out_rt = <<>>
    /\ out_bool = FALSE
    /\ out_segs = <<>>

\* arguments for a constructor, nothing constructed yet
InitNew ==
    /\ escape_char \in NewEscapeChars
    /\ escape \in Arrays(NewKeys)
    /\ tr \in NewTrs
    /\ generic = "none"
    /\ new_res = "unbuilt"
    /\ const_res = "unbuilt"
    /\ s = <<>>
    /\ Idle

\* an Escape that `new` has returned, and a text to encode
InitEncode ==
    /\ escape_char = BSL
    /\ escape \in EncodeEscapes
    /\ tr \in EncodeTrs
    /\ generic \in Generics
    /\ new_res = New(escape_char, escape, tr)
    /\ new_res = "ok"
    /\ const_res = "unbuilt"
    /\ s \in EncodeTexts
    /\ Idle

\* an Escape that `new` has returned, and a text to decode
InitDecode ==
    /\ escape_char = BSL
    /\ escape \in DecodeEscapes
    /\ tr \in DecodeTrs
    /\ generic = "none"
    /\ new_res = New(escape_char, escape, tr)
    /\ new_res = "ok"
    /\ const_res = "unbuilt"
    /\ s \in DecodeTexts
    /\ Idle

\* an Escape that `new` has returned, and a text to scan
InitScan ==
    /\ escape_char = BSL
    /\ escape = <<BSL>>
    /\ tr = <<>>
    /\ generic = "none"
    /\ new_res = New(escape_char, escape, tr)
    /\ new_res = "ok"
    /\ const_res = "unbuilt"
    /\ s \in ScanTexts
    /\ Idle

Init == InitNew \/ InitEncode \/ InitDecode \/ InitScan

\* Escape::new(escape_char, escape, tr, generic)
DoNew ==
    /\ new_res = "unbuilt"
    /\ new_res' = New(escape_char, escape, tr)
    /\ op' = "new"
    /\ UNCHANGED <<escape_char, escape, tr, generic, const_res, s, sep, n, idx,
                   out_str, out_rt, out_bool, out_segs>>

\* Escape::const_new(escape_char, escape, tr, generic)
DoConstNew ==
    /\ const_res = "unbuilt"
    /\ const_res' = ConstNew(escape_char, escape, tr)
    /\ op' = "const_new"
    /\ UNCHANGED <<escape_char, escape, tr, generic, new_res, s, sep, n, idx,
                   out_str, out_rt, out_bool, out_segs>>

\* esc.escape(s)
DoEscape ==
    /\ new_res = "ok"
    /\ op = "init"
    /\ out_str' = Escape(escape_char, escape, tr, generic, s)
    /\ op' = "escape"
    /\ UNCHANGED <<escape_char, escape, tr, generic, new_res, const_res, s, sep,
                   n, idx, out_rt, out_bool, out_segs>>

\* esc.unescape(&escaped), on what escape returned
DoUnescapeEscaped ==
    /\ new_res = "ok"
    /\ op = "escape"
    /\ out_rt' = Unescape(escape_char, tr, out_str)
    /\ op' = "round_trip"
    /\ UNCHANGED <<escape_char, escape, tr, generic, new_res, const_res, s, sep,
                   n, idx, out_str, out_bool, out_segs>>

\* esc.unescape(s)
DoUnescape ==
    /\ new_res = "ok"
    /\ op = "init"
    /\ out_str' = Unescape(escape_char, tr, s)
    /\ op' = "unescape"
    /\ UNCHANGED <<escape_char, escape, tr, generic, new_res, const_res, s, sep,
                   n, idx, out_rt, out_bool, out_segs>>

\* esc.is_escaped(s, i)
DoIsEscaped ==
    /\ new_res = "ok"
    /\ op = "init"
    /\ \E i \in 0..(StrLen(s) + 1) :
          /\ idx' = i
          /\ out_bool' = IsEscaped(escape_char, s, i)
    /\ op' = "is_escaped"
    /\ UNCHANGED <<escape_char, escape, tr, generic, new_res, const_res, s, sep,
                   n, out_str, out_rt, out_segs>>

\* esc.split(s, sep).collect()
DoSplit ==
    /\ new_res = "ok"
    /\ op = "init"
    /\ \E sp \in Seps :
          /\ sep' = sp
          /\ out_segs' = Split(escape_char, s, sp)
    /\ op' = "split"
    /\ UNCHANGED <<escape_char, escape, tr, generic, new_res, const_res, s, n,
                   idx, out_str, out_rt, out_bool>>

\* esc.splitn(s, n, sep).collect()
DoSplitn ==
    /\ new_res = "ok"
    /\ op = "init"
    /\ \E sp \in Seps, m \in Limits :
          /\ sep' = sp
          /\ n' = m
          /\ out_segs' = Splitn(escape_char, s, m, sp)
    /\ op' = "splitn"
    /\ UNCHANGED <<escape_char, escape, tr, generic, new_res, const_res, s, idx,
                   out_str, out_rt, out_bool>>

\* esc.rsplit(s, sep).collect()
DoRsplit ==
    /\ new_res = "ok"
    /\ op = "init"
    /\ \E sp \in Seps :
          /\ sep' = sp
          /\ out_segs' = Rsplit(escape_char, s, sp)
    /\ op' = "rsplit"
    /\ UNCHANGED <<escape_char, escape, tr, generic, new_res, const_res, s, n,
                   idx, out_str, out_rt, out_bool>>

NextNew == DoNew \/ DoConstNew
NextEncode == DoEscape \/ DoUnescapeEscaped
NextDecode == DoUnescape
NextScan == DoIsEscaped \/ DoSplit \/ DoSplitn \/ DoRsplit

Next == NextNew \/ NextEncode \/ NextDecode \/ NextScan

Spec == Init /\ [][Next]_vars
SpecNew == InitNew /\ [][NextNew]_vars
SpecEncode == InitEncode /\ [][NextEncode]_vars
SpecDecode == InitDecode /\ [][NextDecode]_vars
SpecScan == InitScan /\ [][NextScan]_vars

----------------------------------------------------------------------------
(* Vocabulary of the properties.                                           *)

\* the chars of a text or of an array
Range(q) == {q[k] : k \in 1..Len(q)}

\* the byte offsets at which a char of the text starts, and its end
CharStarts(text) == {Offset(text, k) : k \in 0..Len(text)}

\* the length of the run of escape char bytes that ends right before byte
\* offset i
EscRun(text, i) ==
    CHOOSE r \in 0..i :
        /\ \A m \in 1..r : AsBytes(text)[i - m + 1] = escape_char
        /\ (r = i \/ AsBytes(text)[i - r] # escape_char)

\* the text reversed
Reverse(q) == [k \in 1..Len(q) |-> q[Len(q) + 1 - k]]

\* the segments of a text cut at the char positions P, from position k on,
\* the running segment having begun at `start`
RECURSIVE Pieces(_, _, _, _)
Pieces(text, P, k, start) ==
    IF k > Len(text) THEN <<SubSeq(text, start, Len(text))>>
    ELSE IF k \in P
         THEN <<SubSeq(text, start, k - 1)>> \o Pieces(text, P, k + 1, k + 1)
         ELSE Pieces(text, P, k + 1, start)

\* the total length of the first j segments
RECURSIVE SegChars(_, _)
SegChars(segs, j) == IF j = 0 THEN 0 ELSE Len(segs[j]) + SegChars(segs, j - 1)

\* hexadecimal digits and the number they denote (kept as CharMax + 1 once
\* above char::MAX)
IsHexDigit(c) ==
    (48 <= c /\ c <= 57) \/ (97 <= c /\ c <= 102) \/ (65 <= c /\ c <= 70)
HexDigitValue(c) == IF c <= 57 THEN c - 48 ELSE IF c >= 97 THEN c - 87 ELSE c - 55
RECURSIVE HexValue(_, _)
HexValue(d, acc) ==
    IF d = <<>> THEN acc
    ELSE LET v == acc * 16 + HexDigitValue(Head(d)) IN
         HexValue(Tail(d), IF v > CharMax THEN CharMax + 1 ELSE v)

\* a code point that is a char
IsCodePoint(v) == (0 <= v /\ v < 55296) \/ (57343 < v /\ v <= CharMax)

\* the text begins with a numeric escape u{D}, D hexadecimal digits that
\* denote a char
BeginsNumericEscape(text) ==
    \E e \in 4..Len(text) :
        /\ SubSeq(text, 1, 2) = <<LU, LBRACE>>
        /\ text[e] = RBRACE
        /\ \A k \in 3..(e - 1) : IsHexDigit(text[k])
        /\ IsCodePoint(HexValue(SubSeq(text, 3, e - 1), 0))

\* the text begins with the code of a translation
BeginsTranslation(text) ==
    \E i \in 1..Len(tr) :
        Len(tr[i][2]) <= Len(text) /\ SubSeq(text, 1, Len(tr[i][2])) = tr[i][2]

----------------------------------------------------------------------------
(* C1: round trip.  Whatever configuration `new` accepted and whatever the *)
(* text, unescaping the escaped text gives the text back.                  *)
RoundTrip == op = "round_trip" => out_rt = s

\* the code of one char and of a text, as the encoding is specified
CodeOf(c) ==
    IF c \in Range(escape)
    THEN IF \E i \in 1..Len(tr) : tr[i][1] = c
         THEN <<escape_char>> \o tr[CHOOSE i \in 1..Len(tr) : tr[i][1] = c][2]
         ELSE <<escape_char, c>>
    ELSE IF generic = "is_control" /\ IsControl(c)
         THEN <<escape_char, LU, LBRACE>> \o LowerHex(c) \o <<RBRACE>>
    ELSE <<c>>

RECURSIVE CodesOf(_)
CodesOf(text) == IF text = <<>> THEN <<>> ELSE CodeOf(Head(text)) \o CodesOf(Tail(text))

(* C2: escape is the concatenation, in order, of the code of each char: a  *)
(* char of the escape array becomes the escape char and its translation    *)
(* code, or itself when it has none; another char the generic predicate    *)
(* accepts becomes the escape char and u{H}, H its code point in lowercase *)
(* hexadecimal without prefix; any other char stays as it is.              *)
EscapeIsCodeOfEachChar == op \in {"escape", "round_trip"} => out_str = CodesOf(s)

\* the `currently escaped` flag before char k, and the separators met
\* while it is clear
RECURSIVE FlagBefore(_, _)
FlagBefore(text, k) ==
    IF k = 1 THEN FALSE
    ELSE text[k - 1] = escape_char /\ ~FlagBefore(text, k - 1)

SplitPoints(text, sp) == {k \in 1..Len(text) : text[k] = sp /\ ~FlagBefore(text, k)}

(* C3: split cuts at a separator exactly when the `currently escaped` flag *)
(* is clear there; the flag is set by an escape char met while it is       *)
(* clear and cleared by every other char, a separator met while it is set  *)
(* included.  Stated for a separator other than the escape char.           *)
SplitCutsWhereFlagClear ==
    (op = "split" /\ sep # escape_char)
        => out_segs = Pieces(s, SplitPoints(s, sep), 1, 1)

\* the configuration breaks one of the ten rules of construction
BreaksARule ==
    \/ escape_char \notin Range(escape)
    \/ \E i, j \in 1..Len(tr) : i # j /\ tr[i][1] = tr[j][1]
    \/ \E i, j \in 1..Len(tr) : i # j /\ tr[i][2] = tr[j][2]
    \/ escape_char > 127
    \/ \E i \in 1..Len(tr) : tr[i][1] = escape_char
    \/ \E i \in 1..Len(tr) : tr[i][2] = <<>>
    \/ \E i \in 1..Len(tr) : \E c \in Range(tr[i][2]) : c > 127
    \/ \E i \in 1..Len(tr) : tr[i][2] # <<>> /\ tr[i][2][1] = LU
    \/ \E i \in 1..Len(tr) : escape_char \in Range(tr[i][2])
    \/ \E i \in 1..Len(tr) : tr[i][1] \notin Range(escape)

(* C4: `new` returns an error exactly when the configuration breaks one of *)
(* the ten rules of construction.                                          *)
NewRejectsExactlyRuleBreakers ==
    new_res # "unbuilt" => ((new_res # "ok") <=> BreaksARule)

\* `new` has rejected a configuration whose one fault is a key that the
\* escape array lacks
NewRejectedMissingKey ==
    /\ new_res = "the escape array must contain every translation key"
    /\ escape = <<CR, BSL>>
    /\ tr = <<<<CR, <<LR>>>>, <<NL, <<LN>>>>>>

(* C5: const_new fails its assertions exactly when `new` returns an error. *)
ConstNewAgreesWithNew ==
    (new_res # "unbuilt" /\ const_res # "unbuilt")
        => ((const_res = "ok") <=> (new_res = "ok"))

(* C6: a text that is the escape char, then u{D}, D hexadecimal digits     *)
(* that denote a char, with no translation code matching at the u,         *)
(* unescapes to the one char whose code point is D read in hexadecimal.    *)
NumericEscapeIsHex ==
    (/\ op = "unescape"
     /\ Len(s) >= 5
     /\ s[1] = escape_char
     /\ s[Len(s)] = RBRACE
     /\ RBRACE \notin Range(SubSeq(s, 1, Len(s) - 1))
     /\ BeginsNumericEscape(Tail(s))
     /\ ~BeginsTranslation(Tail(s)))
        => out_str = <<HexValue(SubSeq(s, 4, Len(s) - 1), 0)>>

(* C7: unescape returns a text for every text it is given, and where an    *)
(* escape char (the only one of the text, but for the char it escapes) is  *)
(* followed by a char that begins neither a translation code nor a valid   *)
(* numeric escape, the result is the text without that escape char.        *)
UnescapeTotalAndLenient ==
    op = "unescape" =>
        /\ out_str # Panic
        /\ \A k \in 1..(Len(s) - 1) :
              (/\ s[k] = escape_char
               /\ escape_char \notin Range(SubSeq(s, 1, k - 1))
               /\ escape_char \notin Range(SubSeq(s, k + 2, Len(s)))
               /\ ~BeginsTranslation(SubSeq(s, k + 1, Len(s)))
               /\ ~BeginsNumericEscape(SubSeq(s, k + 1, Len(s))))
                  => out_str = SubSeq(s, 1, k - 1) \o SubSeq(s, k + 1, Len(s))

(* C8: is_escaped is true at a byte offset that is no char boundary (an    *)
(* offset past the end included), and at a char boundary it is true        *)
(* exactly when the run of escape char bytes that ends right before the    *)
(* offset has odd length.                                                  *)
IsEscapedIsParity ==
    op = "is_escaped" =>
        (out_bool <=> (idx \notin CharStarts(s) \/ EscRun(s, idx) % 2 = 1))

\* is_escaped has answered for a char that follows three escape chars, in
\* a text that also holds a char of two bytes
IsEscapedAfterOddRun ==
    /\ op = "is_escaped"
    /\ out_bool
    /\ idx \in CharStarts(s)
    /\ EscRun(s, idx) = 3
    /\ NTILDE \in Range(s)

(* C9: rsplit yields the segments of split in reverse order.               *)
RsplitIsSplitReversed ==
    op = "rsplit" => out_segs = Reverse(Split(escape_char, s, sep))

(* C10: splitn yields at most n segments, each cut at an occurrence of the *)
(* separator that is not escaped (no odd run of escape chars before it);   *)
(* for n >= 1 they are the segments of split when those are at most n, and *)
(* otherwise the first n-1 of them and then the rest of the text uncut.    *)
SplitnAsSplitAtUnescaped ==
    (op = "splitn" /\ sep # escape_char) =>
        /\ Len(out_segs) <= n
        /\ \A j \in 1..(Len(out_segs) - 1) :
              LET k == SegChars(out_segs, j) + j IN
              /\ k <= Len(s)
              /\ s[k] = sep
              /\ EscRun(s, Offset(s, k - 1)) % 2 = 0
        /\ n >= 1 =>
              LET all == Split(escape_char, s, sep) IN
              IF Len(all) <= n THEN out_segs = all
              ELSE out_segs = SubSeq(all, 1, n - 1)
                      \o <<SubSeq(s, SegChars(all, n - 1) + n, Len(s))>>

(* C11: in what escape returns, every occurrence of a char of the escape   *)
(* array is right after an odd run of escape chars (is_escaped is true at  *)
(* its offset), unless it is an escape char that introduces an escape      *)
(* sequence: one after an even run, with a char after it.                  *)
EscapedSetNeverBare ==
    op \in {"escape", "round_trip"} =>
        \A k \in 1..Len(out_str) :
            out_str[k] \in Range(escape) =>
                \/ EscRun(out_str, Offset(out_str, k - 1)) % 2 = 1
                \/ (out_str[k] = escape_char /\ k < Len(out_str))

====
